---- MODULE Spec2Model ----
(***************************************************************************)
(* Job-orchestration core of the t-shirt generator: Intake Gateway,        *)
(* generation queue, Generation Worker, Interaction Gateway, action queue, *)
(* Action Worker, Metadata Store (requests, images) and Artifact Store.    *)
(***************************************************************************)
EXTENDS Integers, Sequences, FiniteSets, TLC

(***************************************************************************)
(* Bounds of the model                                                     *)
(***************************************************************************)
MaxRequests == 3
MaxCommands == 1
MaxImages == 4
MaxActions == 2
MaxTextLen == 2
NumUsers == 1
NumWorkers == 2
MaxInteractions == 1

(***************************************************************************)
(* Program constants                                                       *)
(***************************************************************************)
ImageCount == 3
MaxReceiveCount == 3
ReportBatchItemFailures == FALSE

RequestIds == 1..MaxRequests
ImageIds == 1..MaxImages
UserIds == 1..NumUsers
Workers == 1..NumWorkers
ActionIds == 1..MaxActions
ImageKeys == ImageIds \X RequestIds
Chars == {" ", "a"}
Channels == {"allowed", "other"}
AllowedChannelId == "allowed"
ChannelSettings == {"", AllowedChannelId}

RECURSIVE SeqsUpTo(_)
SeqsUpTo(n) ==
  IF n = 0 THEN {<<>>}
  ELSE LET S == SeqsUpTo(n - 1)
       IN S \cup {Append(s, c) : s \in {t \in S : Len(t) = n - 1}, c \in Chars}

Texts == SeqsUpTo(MaxTextLen)

RECURSIVE TrimStart(_)
TrimStart(s) == IF s # <<>> /\ Head(s) = " " THEN TrimStart(Tail(s)) ELSE s

RECURSIVE TrimEnd(_)
TrimEnd(s) ==
  IF s # <<>> /\ s[Len(s)] = " " THEN TrimEnd(SubSeq(s, 1, Len(s) - 1)) ELSE s

\* variant: the text is taken as typed
TrimNothing(s) == s

\* String.prototype.trim
Trim(s) == TrimEnd(TrimStart(s))

(***************************************************************************)
(* Records of the Metadata Store and keys of the Artifact Store            *)
(***************************************************************************)
NoKey == <<>>
NoPrompt == <<>>
NoRequest == [status |-> "none", prompt |-> NoPrompt]
NoImage == [status |-> "none", s3Key |-> NoKey, ttl |-> FALSE]

buildTempImageKey(requestId, imageId) == <<"temp", requestId, imageId>>

\* variant: the saved copy is filed under the temporary prefix
buildSavedImageKeyTemp(userId, requestId, imageId) ==
  <<"temp", userId, requestId, imageId>>

buildSavedImageKey(userId, requestId, imageId) ==
  <<"saved", userId, requestId, imageId>>

\* variant: a put without condition expression
createRequestUnconditional(reqs, requestId) == TRUE

\* PutCommand with ConditionExpression attribute_not_exists(requestId)
createRequestSucceeds(reqs, requestId) == reqs[requestId].status = "none"

\* variant: the put is acknowledged and the item is not stored
createRequestLost(reqs, requestId, prompt) ==
  reqs

createRequest(reqs, requestId, prompt) ==
  [reqs EXCEPT ![requestId] = [status |-> "pending", prompt |-> prompt]]

\* variant: a condition expression that admits only pending requests
updateRequestStatusIfPending(reqs, requestId, status) ==
  IF reqs[requestId].status = "pending"
  THEN [reqs EXCEPT ![requestId].status = status]
  ELSE reqs

\* UpdateCommand SET #status = :status, unconditional
updateRequestStatus(reqs, requestId, status) ==
  [reqs EXCEPT ![requestId].status = status]

\* variant: the item is written under the requestId alone
createImageSingleKey(imgs, imageId, requestId, s3Key) ==
  [k \in ImageKeys |->
     IF k[2] = requestId
     THEN IF k[1] = imageId
          THEN [status |-> "generated", s3Key |-> s3Key, ttl |-> FALSE]
          ELSE NoImage
     ELSE imgs[k]]

\* PutCommand without condition
createImage(imgs, imageId, requestId, s3Key) ==
  [imgs EXCEPT ![<<imageId, requestId>>] =
     [status |-> "generated", s3Key |-> s3Key, ttl |-> FALSE]]

\* variant: a missing item is answered with the record the generator would
\* have written
getImageAssumed(imgs, imageId, requestId) ==
  IF imgs[<<imageId, requestId>>].status = "none"
  THEN [status |-> "generated",
        s3Key |-> buildTempImageKey(requestId, imageId), ttl |-> FALSE]
  ELSE imgs[<<imageId, requestId>>]

\* GetCommand; NoImage stands for the null result
getImage(imgs, imageId, requestId) == imgs[<<imageId, requestId>>]

\* QueryCommand on requestId-index
getImagesByRequest(imgs, requestId) ==
  {i \in ImageIds : imgs[<<i, requestId>>].status # "none"}

\* UpdateCommand SET #status (and #ttl when discarded); UpdateItem creates
\* the item when the key has none
updateImageStatus(imgs, imageId, requestId, status) ==
  [imgs EXCEPT ![<<imageId, requestId>>] =
     [@ EXCEPT !.status = status,
               !.ttl = IF status = "discarded" THEN TRUE ELSE @]]

\* variant: the item is replaced by a new item that carries the key
updateImageS3KeyByPut(imgs, imageId, requestId, s3Key) ==
  [imgs EXCEPT ![<<imageId, requestId>>] =
     [status |-> "generated", s3Key |-> s3Key, ttl |-> FALSE]]

\* UpdateCommand SET s3Key
updateImageS3Key(imgs, imageId, requestId, s3Key) ==
  [imgs EXCEPT ![<<imageId, requestId>>].s3Key = s3Key]

(***************************************************************************)
(* State                                                                   *)
(***************************************************************************)
VARIABLES
  requests,      \* requests table: requestId -> record
  images,        \* images table: <<imageId, requestId>> -> record
  objects,       \* keys of the objects written to the bucket
  genQueue,      \* generation queue: requestId -> message state
  gen,           \* the Generation Worker execution
  intake,        \* the Intake Gateway invocation
  response,      \* last response returned by a gateway
  acked,         \* requestIds whose acknowledgment has been returned
  posted,        \* requestIds whose results message has been posted
  submitted,     \* number of slash commands that passed validation
  allowedChannelId, \* process.env.ALLOWED_CHANNEL_ID of the gateways
  event,         \* the event of the latest gateway invocation
  call,          \* the latest call of a library function, with its result
  nextRequestId, \* uuidv4() for requests
  nextImageId,   \* uuidv4() for images
  actQueue,      \* action queue: message id -> message state and ActionJob
  act,           \* the Action Worker executions
  nextActionId   \* message ids of the action queue

genSide ==
  <<genQueue, gen, intake, response, acked, posted, nextImageId, submitted,
    allowedChannelId, event, call>>
actSide == <<actQueue, act, nextActionId>>
vars == <<requests, images, objects, nextRequestId, genSide, actSide>>

NoMessage == [state |-> "none", receiveCount |-> 0, prompt |-> NoPrompt]
NoSub == [pc |-> "none", imageId |-> 0]
IdleGen ==
  [pc |-> "idle", requestId |-> 0, prompt |-> NoPrompt, n |-> 0,
   sub |-> [k \in 1..ImageCount |-> NoSub],
   caught |-> "none", errIndex |-> 0, thrown |-> "none",
   notice |-> "none", failures |-> {}]
IdleIntake == [pc |-> "idle", requestId |-> 0, prompt |-> NoPrompt]
NoResponse == [statusCode |-> 0, body |-> "none"]
NoCall == [fn |-> "none"]
NoEvent ==
  [gateway |-> "none", signed |-> FALSE, wellFormed |-> FALSE,
   channelId |-> "", text |-> NoPrompt]

(***************************************************************************)
(* Intake Gateway (webhook handler)                                        *)
(***************************************************************************)
\* variant: the comparison with the configured channel is left out
channelRestrictedNever(allowed, channelId) ==
  FALSE

\* allowedChannelId && payload.channel_id !== allowedChannelId
channelRestricted(allowed, channelId) ==
  allowed # "" /\ channelId # allowed

\* 401 on missing Slack headers or a failed signature verification
IntakeRejectSignature ==
  /\ intake.pc = "idle"
  /\ event' = [NoEvent EXCEPT !.gateway = "intake"]
  /\ response' = [statusCode |-> 401, body |-> "invalid_signature"]
  /\ UNCHANGED <<requests, images, objects, nextRequestId, genQueue, gen,
                 intake, acked, posted, nextImageId, submitted,
                 allowedChannelId, call, actSide>>

\* 400 on a body that is not a slash command payload
IntakeRejectMalformed ==
  /\ intake.pc = "idle"
  /\ event' = [NoEvent EXCEPT !.gateway = "intake", !.signed = TRUE]
  /\ response' = [statusCode |-> 400, body |-> "invalid_payload"]
  /\ UNCHANGED <<requests, images, objects, nextRequestId, genQueue, gen,
                 intake, acked, posted, nextImageId, submitted,
                 allowedChannelId, call, actSide>>

\* channel restriction and empty prompt: user-visible message, nothing stored
IntakeRejectPayload(channelId, text) ==
  /\ intake.pc = "idle"
  /\ event' = [gateway |-> "intake", signed |-> TRUE, wellFormed |-> TRUE,
               channelId |-> channelId, text |-> text]
  /\ \/ /\ channelRestricted(allowedChannelId, channelId)
        /\ response' = [statusCode |-> 200, body |-> "channel_restriction"]
     \/ /\ ~channelRestricted(allowedChannelId, channelId)
        /\ Trim(text) = <<>>
        /\ response' = [statusCode |-> 200, body |-> "empty_prompt"]
  /\ UNCHANGED <<requests, images, objects, nextRequestId, genQueue, gen,
                 intake, acked, posted, nextImageId, submitted,
                 allowedChannelId, call, actSide>>

\* accepted command: fresh requestId, createRequest (status pending);
\* ok = FALSE: createRequest throws, try-again message
IntakeCreate(channelId, text, ok) ==
  /\ intake.pc = "idle"
  /\ ~channelRestricted(allowedChannelId, channelId)
  /\ Trim(text) # <<>>
  /\ event' = [gateway |-> "intake", signed |-> TRUE, wellFormed |-> TRUE,
               channelId |-> channelId, text |-> text]
  /\ submitted < MaxCommands
  /\ nextRequestId <= MaxRequests
  /\ submitted' = submitted + 1
  /\ nextRequestId' = nextRequestId + 1
  /\ IF ok /\ createRequestSucceeds(requests, nextRequestId)
     THEN /\ requests' = createRequest(requests, nextRequestId, Trim(text))
          /\ intake' = [pc |-> "created", requestId |-> nextRequestId,
                        prompt |-> Trim(text)]
          /\ UNCHANGED response
     ELSE /\ response' = [statusCode |-> 200, body |-> "error"]
          /\ UNCHANGED <<requests, intake>>
  /\ UNCHANGED <<images, objects, genQueue, gen, acked, posted, nextImageId,
                 allowedChannelId, call, actSide>>

\* SendMessageCommand to the generation queue;
\* ok = FALSE: send throws, try-again message, the record stays
IntakeSend(ok) ==
  /\ intake.pc = "created"
  /\ IF ok
     THEN /\ genQueue' = [genQueue EXCEPT ![intake.requestId] =
                            [state |-> "visible", receiveCount |-> 0,
                             prompt |-> intake.prompt]]
          /\ intake' = [intake EXCEPT !.pc = "sent"]
          /\ UNCHANGED response
     ELSE /\ response' = [statusCode |-> 200, body |-> "error"]
          /\ intake' = IdleIntake
          /\ UNCHANGED genQueue
  /\ UNCHANGED <<requests, images, objects, nextRequestId, gen, acked, posted,
                 nextImageId, submitted,
                 allowedChannelId, call, event, actSide>>

\* return of the immediate acknowledgment
IntakeReturn ==
  /\ intake.pc = "sent"
  /\ response' = [statusCode |-> 200, body |-> "generating"]
  /\ acked' = acked \cup {intake.requestId}
  /\ intake' = IdleIntake
  /\ UNCHANGED <<requests, images, objects, nextRequestId, genQueue, gen,
                 posted, nextImageId, submitted,
                 allowedChannelId, call, event, actSide>>

(***************************************************************************)
(* Generation queue and Generation Worker (image-generator handler)        *)
(***************************************************************************)
\* variant: the error of the failure notice replaces the original error
rethrownNoticeError(error, webhookError) ==
  IF webhookError = "none" THEN error ELSE webhookError

\* the error processGenerationJob re-raises from its catch block
rethrown(error, webhookError) == error

\* the promise of Promise.all rejects with the first rejection only
firstRejection(g, error, k) ==
  IF g.pc = "commit"
  THEN [g EXCEPT !.pc = "catch", !.caught = error, !.errIndex = k]
  ELSE g

\* the execution is running and its upload promises can make progress
GenAlive == gen.pc \in {"commit", "catch", "notify"}

GenReceive(r) ==
  /\ gen.pc = "idle"
  /\ genQueue[r].state = "visible"
  /\ genQueue[r].receiveCount < MaxReceiveCount
  /\ genQueue' = [genQueue EXCEPT ![r].state = "inflight",
                                  ![r].receiveCount = @ + 1]
  /\ gen' = [IdleGen EXCEPT !.pc = "start", !.requestId = r,
                            !.prompt = genQueue[r].prompt]
  /\ UNCHANGED <<requests, images, objects, nextRequestId, intake, response,
                 acked, posted, nextImageId, submitted,
                 allowedChannelId, call, event, actSide>>

\* getSecretValue or createImageGeneratorFromEnv throws before the try block
GenInitFail ==
  /\ gen.pc = "start"
  /\ gen' = [gen EXCEPT !.pc = "return", !.thrown = "init",
                        !.failures = {gen.requestId}]
  /\ UNCHANGED <<requests, images, objects, nextRequestId, genQueue, intake,
                 response, acked, posted, nextImageId, submitted,
                 allowedChannelId, call, event, actSide>>

GenSetGenerating ==
  /\ gen.pc = "start"
  /\ requests' = updateRequestStatus(requests, gen.requestId, "generating")
  /\ gen' = [gen EXCEPT !.pc = "generate"]
  /\ UNCHANGED <<images, objects, nextRequestId, genQueue, intake, response,
                 acked, posted, nextImageId, submitted,
                 allowedChannelId, call, event, actSide>>

\* imageGenerator.generate returns n images; the map callbacks draw the
\* imageIds and start the uploads
GenProviderOk(n) ==
  /\ gen.pc = "generate"
  /\ nextImageId + n - 1 <= MaxImages
  /\ nextImageId' = nextImageId + n
  /\ gen' = [gen EXCEPT !.pc = "commit", !.n = n,
               !.sub = [k \in 1..ImageCount |->
                          IF k <= n
                          THEN [pc |-> "upload", imageId |-> nextImageId + k - 1]
                          ELSE NoSub]]
  /\ UNCHANGED <<requests, images, objects, nextRequestId, genQueue, intake,
                 response, acked, posted, submitted,
                 allowedChannelId, call, event, actSide>>

\* imageGenerator.generate throws on the provider call for image k
GenProviderFail(k) ==
  /\ gen.pc = "generate"
  /\ gen' = [gen EXCEPT !.pc = "catch", !.caught = "provider", !.errIndex = k]
  /\ UNCHANGED <<requests, images, objects, nextRequestId, genQueue, intake,
                 response, acked, posted, nextImageId, submitted,
                 allowedChannelId, call, event, actSide>>

\* uploadImage of image k; ok = FALSE: it throws
SubUpload(k, ok) ==
  /\ GenAlive
  /\ gen.sub[k].pc = "upload"
  /\ IF ok
     THEN /\ objects' = objects \cup
                          {buildTempImageKey(gen.requestId, gen.sub[k].imageId)}
          /\ gen' = [gen EXCEPT !.sub[k].pc = "create"]
     ELSE /\ gen' = [firstRejection(gen, "upload", k)
                       EXCEPT !.sub[k].pc = "failed"]
          /\ UNCHANGED objects
  /\ UNCHANGED <<requests, images, nextRequestId, genQueue, intake, response,
                 acked, posted, nextImageId, submitted,
                 allowedChannelId, call, event, actSide>>

\* createImage then generatePresignedUrl of image k; outcome names the call
\* that throws, if any
SubCreate(k, outcome) ==
  /\ GenAlive
  /\ gen.sub[k].pc = "create"
  /\ images' = IF outcome = "createImage" THEN images
               ELSE createImage(images, gen.sub[k].imageId, gen.requestId,
                      buildTempImageKey(gen.requestId, gen.sub[k].imageId))
  /\ gen' = IF outcome = "none"
            THEN [gen EXCEPT !.sub[k].pc = "done"]
            ELSE [firstRejection(gen, outcome, k) EXCEPT !.sub[k].pc = "failed"]
  /\ UNCHANGED <<requests, objects, nextRequestId, genQueue, intake, response,
                 acked, posted, nextImageId, submitted,
                 allowedChannelId, call, event, actSide>>

\* Promise.all resolved: buildGeneratedImagesMessage and postMessage;
\* ok = FALSE: postMessage throws
GenPost(ok) ==
  /\ gen.pc = "commit"
  /\ \A k \in 1..gen.n : gen.sub[k].pc = "done"
  /\ IF ok
     THEN /\ posted' = posted \cup {gen.requestId}
          /\ gen' = [gen EXCEPT !.pc = "complete"]
     ELSE /\ gen' = [gen EXCEPT !.pc = "catch", !.caught = "postMessage"]
          /\ UNCHANGED posted
  /\ UNCHANGED <<requests, images, objects, nextRequestId, genQueue, intake,
                 response, acked, nextImageId, submitted,
                 allowedChannelId, call, event, actSide>>

GenComplete ==
  /\ gen.pc = "complete"
  /\ requests' = updateRequestStatus(requests, gen.requestId, "completed")
  /\ gen' = [gen EXCEPT !.pc = "return"]
  /\ UNCHANGED <<images, objects, nextRequestId, genQueue, intake, response,
                 acked, posted, nextImageId, submitted,
                 allowedChannelId, call, event, actSide>>

\* catch block: status failed
GenCatch ==
  /\ gen.pc = "catch"
  /\ requests' = updateRequestStatus(requests, gen.requestId, "failed")
  /\ gen' = [gen EXCEPT !.pc = "notify"]
  /\ UNCHANGED <<images, objects, nextRequestId, genQueue, intake, response,
                 acked, posted, nextImageId, submitted,
                 allowedChannelId, call, event, actSide>>

\* catch block: failure notice (its own error is swallowed), then throw error;
\* the handler records the message in batchItemFailures
GenNotify(webhookError) ==
  /\ gen.pc = "notify"
  /\ gen' = [gen EXCEPT !.pc = "return",
               !.notice = IF webhookError = "none" THEN "sent" ELSE "failed",
               !.thrown = rethrown(gen.caught, webhookError),
               !.failures = {gen.requestId}]
  /\ UNCHANGED <<requests, images, objects, nextRequestId, genQueue, intake,
                 response, acked, posted, nextImageId, submitted,
                 allowedChannelId, call, event, actSide>>

\* the handler returns its SQSBatchResponse; the event source deletes the
\* message unless it honours batchItemFailures
GenReturn ==
  /\ gen.pc = "return"
  /\ genQueue' = [genQueue EXCEPT ![gen.requestId].state =
                    IF ReportBatchItemFailures /\ gen.requestId \in gen.failures
                    THEN "visible" ELSE "deleted"]
  /\ gen' = IdleGen
  /\ UNCHANGED <<requests, images, objects, nextRequestId, intake, response,
                 acked, posted, nextImageId, submitted,
                 allowedChannelId, call, event, actSide>>

\* the invocation is killed by the Lambda timeout; the message becomes
\* visible again when its visibility timeout ends
GenTimeout ==
  /\ gen.pc # "idle"
  /\ genQueue' = [genQueue EXCEPT ![gen.requestId].state = "visible"]
  /\ gen' = IdleGen
  /\ UNCHANGED <<requests, images, objects, nextRequestId, intake, response,
                 acked, posted, nextImageId, submitted,
                 allowedChannelId, call, event, actSide>>

\* redrive policy: maxReceiveCount receives, then the dead-letter queue
GenDeadLetter(r) ==
  /\ genQueue[r].state = "visible"
  /\ genQueue[r].receiveCount >= MaxReceiveCount
  /\ genQueue' = [genQueue EXCEPT ![r].state = "dlq"]
  /\ UNCHANGED <<requests, images, objects, nextRequestId, gen, intake,
                 response, acked, posted, nextImageId, submitted,
                 allowedChannelId, call, event, actSide>>

(***************************************************************************)
(* Interaction Gateway, action queue and Action Worker (action-processor)  *)
(***************************************************************************)
Actions == {"keep", "discard", "keep_all", "discard_all", "regenerate_all"}
NoJob == [action |-> "none", imageId |-> 0, requestId |-> 0, userId |-> 0,
          originalPrompt |-> NoPrompt]
NoActionMessage ==
  [state |-> "none", receiveCount |-> 0, job |-> NoJob, failed |-> FALSE]
NoTask == [pc |-> "none", sourceKey |-> NoKey]
NoView == [kind |-> "none", visible |-> {}]
IdleAct ==
  [pc |-> "idle", msg |-> 0, job |-> NoJob, image |-> NoImage,
   sub |-> [i \in ImageIds |-> NoTask], newRequestId |-> 0,
   pushed |-> NoView, thrown |-> "none"]

\* buildUpdatedImagesMessage: discarded images are filtered out
visibleImages(imgs, requestId) ==
  {i \in getImagesByRequest(imgs, requestId) :
     imgs[<<i, requestId>>].status # "discarded"}

\* variant: every image that is not yet kept is processed
keepAllSelectsNotKept(image) == image.status # "kept"

\* handleKeepAll processes the images whose status is generated
keepAllSelects(image) == image.status = "generated"

\* handleDiscardAll skips the images whose status is discarded
discardAllSelects(image) == image.status # "discarded"

\* CopyObjectCommand needs the source object
copyImageSucceeds(objs, sourceKey) == sourceKey \in objs

throw(w, error) == [act EXCEPT ![w].pc = "return", ![w].thrown = error]

\* getRequest(...)?.prompt for regenerate_all: undefined for another action
\* and when the request has no record
originalPrompt(reqs, action, requestId) ==
  IF action = "regenerate_all" /\ reqs[requestId].status # "none"
  THEN reqs[requestId].prompt
  ELSE NoPrompt

\* block_actions interaction: the job carries the ids of the button value and,
\* for regenerate_all, the prompt of the request
InteractionEnqueue(channelId, action, imageId, requestId, userId) ==
  /\ nextActionId <= MaxActions
  /\ event' = [gateway |-> "interaction", signed |-> TRUE, wellFormed |-> TRUE,
               channelId |-> channelId, text |-> NoPrompt]
  /\ imageId # 0 <=> action \in {"keep", "discard"}
  /\ actQueue' = [actQueue EXCEPT ![nextActionId] =
       [state |-> "visible", receiveCount |-> 0, failed |-> FALSE,
        job |-> [action |-> action, imageId |-> imageId,
                 requestId |-> requestId, userId |-> userId,
                 originalPrompt |->
                   originalPrompt(requests, action, requestId)]]]
  /\ nextActionId' = nextActionId + 1
  /\ response' = [statusCode |-> 200, body |-> "empty"]
  /\ UNCHANGED <<requests, images, objects, nextRequestId, genQueue, gen,
                 intake, acked, posted, nextImageId, submitted,
                 allowedChannelId, call, act>>

\* 401 on missing Slack headers or a failed signature verification
InteractionRejectSignature ==
  /\ event' = [NoEvent EXCEPT !.gateway = "interaction"]
  /\ response' = [statusCode |-> 401, body |-> "invalid_signature"]
  /\ UNCHANGED <<requests, images, objects, nextRequestId, genQueue, gen,
                 intake, acked, posted, nextImageId, submitted,
                 allowedChannelId, call, actSide>>

\* 400 on a body without payload field or failing SlackInteractionSchema
InteractionRejectPayload ==
  /\ event' = [NoEvent EXCEPT !.gateway = "interaction", !.signed = TRUE]
  /\ response' = [statusCode |-> 400, body |-> "invalid_payload"]
  /\ UNCHANGED <<requests, images, objects, nextRequestId, genQueue, gen,
                 intake, acked, posted, nextImageId, submitted,
                 allowedChannelId, call, actSide>>

\* an interaction that is not block_actions, has no action or an unknown
\* action_id: empty 200, nothing queued
InteractionIgnore(channelId) ==
  /\ event' = [gateway |-> "interaction", signed |-> TRUE, wellFormed |-> TRUE,
               channelId |-> channelId, text |-> NoPrompt]
  /\ response' = [statusCode |-> 200, body |-> "empty"]
  /\ UNCHANGED <<requests, images, objects, nextRequestId, genQueue, gen,
                 intake, acked, posted, nextImageId, submitted,
                 allowedChannelId, call, actSide>>

\* the catch block returns the try-again message, nothing queued;
\* wellFormed = FALSE: JSON.parse or parseImageActionValue throws,
\* wellFormed = TRUE: getRequest or the send to the action queue throws
InteractionFail(channelId, wellFormed) ==
  /\ event' = [gateway |-> "interaction", signed |-> TRUE,
               wellFormed |-> wellFormed, channelId |-> channelId,
               text |-> NoPrompt]
  /\ response' = [statusCode |-> 200, body |-> "error"]
  /\ UNCHANGED <<requests, images, objects, nextRequestId, genQueue, gen,
                 intake, acked, posted, nextImageId, submitted,
                 allowedChannelId, call, actSide>>

\* the event source hands the message to an idle execution environment
ActReceive(w, a) ==
  /\ act[w].pc = "idle"
  /\ \A v \in Workers : v < w => act[v].pc # "idle"
  /\ actQueue[a].state = "visible"
  /\ actQueue[a].receiveCount < MaxReceiveCount
  /\ actQueue' = [actQueue EXCEPT ![a].state = "inflight",
                                  ![a].receiveCount = @ + 1]
  /\ act' = [act EXCEPT ![w] = [IdleAct EXCEPT !.pc = "start", !.msg = a,
                                               !.job = actQueue[a].job]]
  /\ UNCHANGED <<requests, images, objects, nextRequestId, genSide,
                 nextActionId>>

handleKeepImage(w, ok) ==
  LET job == act[w].job
      destinationKey == buildSavedImageKey(job.userId, job.requestId, job.imageId)
  IN
  /\ job.action = "keep"
  /\ \/ \* getImage; a missing record is an error
        /\ act[w].pc = "start"
        /\ ok
        /\ LET image == getImage(images, job.imageId, job.requestId) IN
             act' = IF image.status = "none"
                    THEN throw(w, "not_found")
                    ELSE [act EXCEPT ![w].pc = "copy", ![w].image = image]
        /\ UNCHANGED <<images, objects>>
     \/ \* copyImage to the saved location
        /\ act[w].pc = "copy"
        /\ IF ok /\ copyImageSucceeds(objects, act[w].image.s3Key)
           THEN /\ objects' = objects \cup {destinationKey}
                /\ act' = [act EXCEPT ![w].pc = "setKey"]
           ELSE /\ act' = throw(w, "copy")
                /\ UNCHANGED objects
        /\ UNCHANGED images
     \/ /\ act[w].pc = "setKey"
        /\ ok
        /\ images' = updateImageS3Key(images, job.imageId, job.requestId,
                                      destinationKey)
        /\ act' = [act EXCEPT ![w].pc = "setStatus"]
        /\ UNCHANGED objects
     \/ /\ act[w].pc = "setStatus"
        /\ ok
        /\ images' = updateImageStatus(images, job.imageId, job.requestId, "kept")
        /\ act' = [act EXCEPT ![w].pc = "respond"]
        /\ UNCHANGED objects
  /\ UNCHANGED <<requests, nextRequestId, genSide, actQueue, nextActionId>>

handleDiscardImage(w) ==
  LET job == act[w].job IN
  /\ job.action = "discard"
  /\ act[w].pc = "start"
  /\ images' = updateImageStatus(images, job.imageId, job.requestId, "discarded")
  /\ act' = [act EXCEPT ![w].pc = "respond"]
  /\ UNCHANGED <<requests, objects, nextRequestId, genSide, actQueue,
                 nextActionId>>

handleKeepAll(w, i, ok) ==
  LET job == act[w].job
      destinationKey == buildSavedImageKey(job.userId, job.requestId, i)
  IN
  /\ job.action = "keep_all"
  /\ \/ \* getImagesByRequest; no image is an error; one promise per image
        /\ act[w].pc = "start"
        /\ ok
        /\ LET found == getImagesByRequest(images, job.requestId) IN
             act' = IF found = {}
                    THEN throw(w, "no_images")
                    ELSE [act EXCEPT ![w].pc = "all",
                            ![w].sub = [j \in ImageIds |->
                               IF j \in found
                                  /\ keepAllSelects(images[<<j, job.requestId>>])
                               THEN [pc |-> "copy",
                                     sourceKey |-> images[<<j, job.requestId>>].s3Key]
                               ELSE NoTask]]
        /\ UNCHANGED <<images, objects>>
     \/ /\ act[w].pc = "all"
        /\ act[w].sub[i].pc = "copy"
        /\ IF ok /\ copyImageSucceeds(objects, act[w].sub[i].sourceKey)
           THEN /\ objects' = objects \cup {destinationKey}
                /\ act' = [act EXCEPT ![w].sub[i].pc = "setKey"]
           ELSE \* Promise.all rejects: the handler throws
                /\ act' = throw(w, "copy")
                /\ UNCHANGED objects
        /\ UNCHANGED images
     \/ /\ act[w].pc = "all"
        /\ act[w].sub[i].pc = "setKey"
        /\ ok
        /\ images' = updateImageS3Key(images, i, job.requestId, destinationKey)
        /\ act' = [act EXCEPT ![w].sub[i].pc = "setStatus"]
        /\ UNCHANGED objects
     \/ /\ act[w].pc = "all"
        /\ act[w].sub[i].pc = "setStatus"
        /\ ok
        /\ images' = updateImageStatus(images, i, job.requestId, "kept")
        /\ act' = [act EXCEPT ![w].sub[i].pc = "done"]
        /\ UNCHANGED objects
  /\ UNCHANGED <<requests, nextRequestId, genSide, actQueue, nextActionId>>

handleDiscardAll(w, i) ==
  LET job == act[w].job IN
  /\ job.action = "discard_all"
  /\ \/ /\ act[w].pc = "start"
        /\ act' = [act EXCEPT ![w].pc = "all",
                     ![w].sub = [j \in ImageIds |->
                        IF j \in getImagesByRequest(images, job.requestId)
                           /\ discardAllSelects(images[<<j, job.requestId>>])
                        THEN [pc |-> "setStatus", sourceKey |-> NoKey]
                        ELSE NoTask]]
        /\ UNCHANGED images
     \/ /\ act[w].pc = "all"
        /\ act[w].sub[i].pc = "setStatus"
        /\ images' = updateImageStatus(images, i, job.requestId, "discarded")
        /\ act' = [act EXCEPT ![w].sub[i].pc = "done"]
  /\ UNCHANGED <<requests, objects, nextRequestId, genSide, actQueue,
                 nextActionId>>

\* Promise.all of handleKeepAll or handleDiscardAll resolved
ActAllSettled(w) ==
  /\ act[w].pc = "all"
  /\ \A j \in ImageIds : act[w].sub[j].pc \in {"none", "done"}
  /\ act' = [act EXCEPT ![w].pc = "respond"]
  /\ UNCHANGED <<requests, images, objects, nextRequestId, genSide, actQueue,
                 nextActionId>>

\* variant: the regeneration resets the request it was asked for
generationRequestInPlace(reqs, job, newRequestId) ==
  updateRequestStatus(reqs, job.requestId, "pending")

\* generationRequest of handleRegenerateAll, stored by createRequest
generationRequest(reqs, job, newRequestId) ==
  createRequest(reqs, newRequestId, job.originalPrompt)

\* variant: the new job names the request the regeneration was asked for
jobMessageForOriginal(job, newRequestId) ==
  [requestId |-> job.requestId, prompt |-> job.originalPrompt]

\* jobMessage of handleRegenerateAll
jobMessage(job, newRequestId) ==
  [requestId |-> newRequestId, prompt |-> job.originalPrompt]

handleRegenerateAll(w, ok) ==
  LET job == act[w].job IN
  /\ job.action = "regenerate_all"
  /\ \/ \* newRequestId = uuidv4(); createRequest (status pending)
        /\ act[w].pc = "start"
        /\ nextRequestId <= MaxRequests
        /\ nextRequestId' = nextRequestId + 1
        /\ IF ok /\ createRequestSucceeds(requests, nextRequestId)
           THEN /\ requests' = generationRequest(requests, job, nextRequestId)
                /\ act' = [act EXCEPT ![w].pc = "send",
                                      ![w].newRequestId = nextRequestId]
           ELSE /\ act' = throw(w, "createRequest")
                /\ UNCHANGED requests
        /\ UNCHANGED genQueue
     \/ \* SendMessageCommand with the new GenerationJob
        /\ act[w].pc = "send"
        /\ IF ok
           THEN /\ genQueue' =
                     LET message == jobMessage(job, act[w].newRequestId)
                     IN [genQueue EXCEPT ![message.requestId] =
                           [state |-> "visible", receiveCount |-> 0,
                            prompt |-> message.prompt]]
                /\ act' = [act EXCEPT ![w].pc = "respond"]
           ELSE /\ act' = throw(w, "send")
                /\ UNCHANGED genQueue
        /\ UNCHANGED <<requests, nextRequestId>>
  /\ UNCHANGED <<images, objects, gen, intake, response, acked, posted,
                 nextImageId, submitted,
                 allowedChannelId, call, event, actQueue, nextActionId>>

\* variant: the handler writes the status of the request before it rebuilds
\* the message
ActRespondResettingRequest(w, ok) ==
  /\ act[w].pc = "respond"
  /\ requests' = updateRequestStatus(requests, act[w].job.requestId, "pending")
  /\ act' = IF ok
            THEN [act EXCEPT ![w].pc = "return"]
            ELSE throw(w, "webhook")
  /\ UNCHANGED <<images, objects, nextRequestId, genSide, actQueue,
                 nextActionId>>

\* getRequest, getImagesByRequest, buildUpdatedImagesMessage (or
\* buildRegeneratingMessage) and respondToWebhook; ok = FALSE: it throws
ActRespond(w, ok) ==
  LET job == act[w].job
      message ==
        CASE job.action = "regenerate_all" ->
               [kind |-> "regenerating", visible |-> {}]
          [] job.action = "discard_all" ->
               [kind |-> "images", visible |-> {}]
          [] OTHER ->
               [kind |-> "images",
                visible |-> visibleImages(images, job.requestId)]
  IN
  /\ act[w].pc = "respond"
  /\ act' = IF ok
            THEN [act EXCEPT ![w].pc = "return", ![w].pushed = message]
            ELSE throw(w, "webhook")
  /\ UNCHANGED <<requests, images, objects, nextRequestId, genSide, actQueue,
                 nextActionId>>

\* the handler returns its SQSBatchResponse: the message is listed in
\* batchItemFailures when processActionJob threw
ActReturn(w) ==
  /\ act[w].pc = "return"
  /\ actQueue' = [actQueue EXCEPT
                    ![act[w].msg].failed = act[w].thrown # "none",
                    ![act[w].msg].state =
                      IF ReportBatchItemFailures /\ act[w].thrown # "none"
                      THEN "visible" ELSE "deleted"]
  /\ act' = [act EXCEPT ![w] = IdleAct]
  /\ UNCHANGED <<requests, images, objects, nextRequestId, genSide,
                 nextActionId>>

\* the invocation is killed by the Lambda timeout
ActTimeout(w) ==
  /\ act[w].pc # "idle"
  /\ actQueue' = [actQueue EXCEPT ![act[w].msg].state = "visible"]
  /\ act' = [act EXCEPT ![w] = IdleAct]
  /\ UNCHANGED <<requests, images, objects, nextRequestId, genSide,
                 nextActionId>>

ActDeadLetter(a) ==
  /\ actQueue[a].state = "visible"
  /\ actQueue[a].receiveCount >= MaxReceiveCount
  /\ actQueue' = [actQueue EXCEPT ![a].state = "dlq"]
  /\ UNCHANGED <<requests, images, objects, nextRequestId, genSide, act,
                 nextActionId>>

(***************************************************************************)
(* Specification of the whole system                                       *)
(***************************************************************************)
\* empty tables, bucket and queues, no invocation running
Empty ==
  /\ requests = [r \in RequestIds |-> NoRequest]
  /\ images = [k \in ImageKeys |-> NoImage]
  /\ objects = {}
  /\ genQueue = [r \in RequestIds |-> NoMessage]
  /\ gen = IdleGen
  /\ intake = IdleIntake
  /\ response = NoResponse
  /\ acked = {}
  /\ posted = {}
  /\ submitted = 0
  /\ event = NoEvent
  /\ nextRequestId = 1
  /\ nextImageId = 1
  /\ actQueue = [a \in ActionIds |-> NoActionMessage]
  /\ act = [w \in Workers |-> IdleAct]
  /\ nextActionId = 1

Init ==
  /\ Empty
  /\ allowedChannelId \in ChannelSettings
  /\ call = NoCall

IntakeReject ==
  \/ IntakeRejectSignature
  \/ IntakeRejectMalformed
  \/ \E c \in Channels, t \in Texts : IntakeRejectPayload(c, t)

IntakeAccept ==
  \/ \E c \in Channels, t \in Texts : IntakeCreate(c, t, TRUE)
  \/ IntakeSend(TRUE)
  \/ IntakeReturn

IntakeFail ==
  \/ \E c \in Channels, t \in Texts : IntakeCreate(c, t, FALSE)
  \/ IntakeSend(FALSE)

IntakeStep == IntakeReject \/ IntakeAccept \/ IntakeFail

GenWork ==
  \/ \E r \in RequestIds : GenReceive(r)
  \/ GenSetGenerating
  \/ \E n \in 0..ImageCount : GenProviderOk(n)
  \/ \E k \in 1..ImageCount : SubUpload(k, TRUE)
  \/ \E k \in 1..ImageCount : SubCreate(k, "none")
  \/ GenPost(TRUE)
  \/ GenComplete
  \/ GenReturn

GenFail ==
  \/ GenInitFail
  \/ \E k \in 1..ImageCount : GenProviderFail(k)
  \/ \E k \in 1..ImageCount : SubUpload(k, FALSE)
  \/ \E k \in 1..ImageCount, e \in {"createImage", "presign"} : SubCreate(k, e)
  \/ GenPost(FALSE)
  \/ GenCatch
  \/ \E e \in {"none", "webhook"} : GenNotify(e)

GenRedeliver ==
  \/ GenTimeout
  \/ \E r \in RequestIds : GenDeadLetter(r)

GenStep == GenWork \/ GenFail \/ GenRedeliver

InteractionReject ==
  \/ InteractionRejectSignature
  \/ InteractionRejectPayload
  \/ \E c \in Channels : InteractionIgnore(c)
  \/ \E c \in Channels, wf \in BOOLEAN : InteractionFail(c, wf)

InteractionAccept ==
  \E c \in Channels, a \in Actions, i \in ImageIds \cup {0}, r \in RequestIds,
     u \in UserIds :
    InteractionEnqueue(c, a, i, r, u)

InteractionStep == InteractionReject \/ InteractionAccept

\* the interactions of the configured channel on the buttons of a stored
\* request, as input of the Action Worker
ActEnqueue ==
  \E a \in Actions, i \in ImageIds \cup {0}, r \in RequestIds, u \in UserIds :
    /\ requests[r].status # "none"
    /\ InteractionEnqueue(AllowedChannelId, a, i, r, u)

ActRun ==
  \/ \E w \in Workers, ok \in BOOLEAN : handleKeepImage(w, ok)
  \/ \E w \in Workers : handleDiscardImage(w)
  \/ \E w \in Workers, i \in ImageIds, ok \in BOOLEAN : handleKeepAll(w, i, ok)
  \/ \E w \in Workers, i \in ImageIds : handleDiscardAll(w, i)
  \/ \E w \in Workers : ActAllSettled(w)
  \/ \E w \in Workers, ok \in BOOLEAN : handleRegenerateAll(w, ok)
  \/ \E w \in Workers, ok \in BOOLEAN : ActRespond(w, ok)
  \/ \E w \in Workers : ActReturn(w)

ActRedeliver ==
  \/ \E w \in Workers : ActTimeout(w)
  \/ \E a \in ActionIds : ActDeadLetter(a)

ActStep ==
  \/ ActEnqueue
  \/ \E w \in Workers, a \in ActionIds : ActReceive(w, a)
  \/ ActRun
  \/ ActRedeliver

Next == IntakeStep \/ InteractionStep \/ GenStep \/ ActStep

Spec == Init /\ [][Next]_vars

(***************************************************************************)
(* The two gateways alone: every kind of invocation, no worker running     *)
(***************************************************************************)
\* at most MaxInteractions interactions are queued
NextGateway ==
  \/ IntakeStep
  \/ InteractionReject
  \/ nextActionId <= MaxInteractions /\ InteractionAccept

SpecGateway == Init /\ [][NextGateway]_vars

(***************************************************************************)
(* Intake and generation when no call fails and no invocation times out    *)
(***************************************************************************)
NextHappy == IntakeAccept \/ GenWork

SpecHappy ==
  Init /\ [][NextHappy]_vars /\ WF_vars(IntakeAccept) /\ WF_vars(GenWork)

(***************************************************************************)
(* The Generation Worker on one accepted request: the state the Intake     *)
(* Gateway leaves when it has returned its acknowledgment                  *)
(***************************************************************************)
InitGen ==
  /\ requests = [r \in RequestIds |->
                   IF r = 1 THEN [status |-> "pending", prompt |-> <<"a">>]
                   ELSE NoRequest]
  /\ images = [k \in ImageKeys |-> NoImage]
  /\ objects = {}
  /\ genQueue = [r \in RequestIds |->
                   IF r = 1 THEN [state |-> "visible", receiveCount |-> 0,
                                  prompt |-> <<"a">>]
                   ELSE NoMessage]
  /\ gen = IdleGen
  /\ intake = IdleIntake
  /\ response = [statusCode |-> 200, body |-> "generating"]
  /\ acked = {1}
  /\ posted = {}
  /\ submitted = 1
  /\ allowedChannelId = AllowedChannelId
  /\ event = [gateway |-> "intake", signed |-> TRUE, wellFormed |-> TRUE,
              channelId |-> AllowedChannelId, text |-> <<"a">>]
  /\ call = NoCall
  /\ nextRequestId = 2
  /\ nextImageId = 1
  /\ actQueue = [a \in ActionIds |-> NoActionMessage]
  /\ act = [w \in Workers |-> IdleAct]
  /\ nextActionId = 1

SpecGen == InitGen /\ [][GenStep]_vars

(***************************************************************************)
(* The action side on one completed request with its three images: the     *)
(* state a generation without failure leaves                               *)
(***************************************************************************)
InitAct ==
  /\ requests = [r \in RequestIds |->
                   IF r = 1 THEN [status |-> "completed", prompt |-> <<"a">>]
                   ELSE NoRequest]
  /\ images = [k \in ImageKeys |->
                 IF k[2] = 1 /\ k[1] <= ImageCount
                 THEN [status |-> "generated",
                       s3Key |-> buildTempImageKey(1, k[1]), ttl |-> FALSE]
                 ELSE NoImage]
  /\ objects = {buildTempImageKey(1, i) : i \in 1..ImageCount}
  /\ genQueue = [r \in RequestIds |->
                   IF r = 1 THEN [state |-> "deleted", receiveCount |-> 1,
                                  prompt |-> <<"a">>]
                   ELSE NoMessage]
  /\ gen = IdleGen
  /\ intake = IdleIntake
  /\ response = [statusCode |-> 200, body |-> "generating"]
  /\ acked = {1}
  /\ posted = {1}
  /\ submitted = 1
  /\ allowedChannelId = AllowedChannelId
  /\ event = [gateway |-> "intake", signed |-> TRUE, wellFormed |-> TRUE,
              channelId |-> AllowedChannelId, text |-> <<"a">>]
  /\ call = NoCall
  /\ nextRequestId = 2
  /\ nextImageId = ImageCount + 1
  /\ actQueue = [a \in ActionIds |-> NoActionMessage]
  /\ act = [w \in Workers |-> IdleAct]
  /\ nextActionId = 1

\* concurrent executions of the Action Worker, no invocation times out
NextAct ==
  \/ ActEnqueue
  \/ \E w \in Workers, a \in ActionIds : ActReceive(w, a)
  \/ ActRun

SpecAct == InitAct /\ [][NextAct]_vars

\* one execution of the Action Worker at a time
NextSeq ==
  \/ ActEnqueue
  \/ \E a \in ActionIds :
       (\A v \in Workers : act[v].pc = "idle") /\ ActReceive(1, a)
  \/ ActRun

SpecSeq == InitAct /\ [][NextSeq]_vars

TypeOK ==
  /\ \A r \in RequestIds :
       requests[r].status \in {"none", "pending", "generating", "completed", "failed"}
  /\ \A k \in ImageKeys :
       images[k].status \in {"none", "generated", "kept", "discarded"}

(***************************************************************************)
(* Properties of the Generation Worker                                     *)
(***************************************************************************)
\* the transitions pending -> generating -> completed | failed
RequestStatusSteps ==
  {<<"none", "pending">>, <<"pending", "generating">>,
   <<"generating", "completed">>, <<"generating", "failed">>}

\* C1: under any redelivery of the generation job, a request's status only
\* moves along pending -> generating -> {completed, failed}; a terminal
\* status is never left.
C1_StatusMonotonic ==
  [][\A r \in RequestIds :
       requests'[r].status # requests[r].status =>
         <<requests[r].status, requests'[r].status>> \in RequestStatusSteps]_vars

\* the errors of the provider call and of the artifact commit
CommitErrors == {"provider", "upload", "createImage", "presign"}

C8_PostFailureKeepsSuccess ==
  (gen.pc \in {"notify", "return"} /\ gen.caught = "postMessage"
     /\ gen.n = ImageCount) =>
    requests[gen.requestId].status # "failed"

\* the subtasks of the running execution that reached the given position
SubsAt(pc) == {k \in 1..ImageCount : gen.sub[k].pc = pc}

\* the first execution on a request ended after two of its three images were
\* committed and the commit of the third threw
TwoOfThreeCommitted ==
  /\ gen.pc = "return"
  /\ genQueue[gen.requestId].receiveCount = 1
  /\ gen.n = ImageCount
  /\ gen.caught \in {"upload", "createImage"}
  /\ Cardinality(SubsAt("done")) = 2
  /\ Cardinality(SubsAt("failed")) = 1

generatedImages(requestId) ==
  {i \in ImageIds : images[<<i, requestId>>].status = "generated"}

\* the running execution has had the result of its provider call
ProviderReturned(r) ==
  gen.requestId = r /\ gen.pc \in {"commit", "complete", "return"}

\* three generated records under the requestId, and the request completed
ThreeGenerated(r) ==
  /\ requests[r].status = "completed"
  /\ Cardinality(getImagesByRequest(images, r)) = ImageCount
  /\ generatedImages(r) = getImagesByRequest(images, r)

C2_ImageStatusOneWay ==
  [][\A k \in ImageKeys :
       images[k].status \in {"kept", "discarded"} =>
         images'[k].status = images[k].status]_vars

\* the record a keep of the job leaves: kept, under the saved key of the user
KeptBy(job) ==
  LET image == images[<<job.imageId, job.requestId>>] IN
  /\ image.status = "kept"
  /\ image.s3Key = <<"saved", job.userId, job.requestId, job.imageId>>

\* another message with the same job was processed without error
ProcessedBefore(w) ==
  \E a \in ActionIds \ {act[w].msg} :
    /\ actQueue[a].job = act[w].job
    /\ actQueue[a].state = "deleted"
    /\ ~actQueue[a].failed

C4_ReprocessNoEffect ==
  [][\A w \in Workers :
       (act[w].pc # "idle" /\ ProcessedBefore(w)) =>
         /\ requests' = requests
         /\ genQueue' = genQueue
         /\ \A k \in ImageKeys :
              /\ images'[k].status = images[k].status
              /\ images'[k].s3Key = images[k].s3Key]_vars

\* an individual keep or discard of the image has made its status write, and
\* the image has the status it wrote
MovedByIndividual(i, r) ==
  \E a \in ActionIds :
    LET job == actQueue[a].job IN
    /\ job.imageId = i
    /\ job.requestId = r
    /\ \/ job.action = "keep" /\ images[<<i, r>>].status = "kept"
       \/ job.action = "discard" /\ images[<<i, r>>].status = "discarded"
    /\ \/ actQueue[a].state = "deleted" /\ ~actQueue[a].failed
       \/ \E v \in Workers :
            act[v].msg = a /\ act[v].pc \in {"respond", "return"}
                           /\ act[v].thrown = "none"

\* C5: a step of keep_all or discard_all on an image leaves its status alone
\* when an individual keep or discard has already moved the image.
C5_BatchSkipsMoved ==
  [][\A w \in Workers, i \in ImageIds :
       (act[w].job.action \in {"keep_all", "discard_all"}
          /\ act[w].pc = "all"
          /\ act'[w].sub[i] # act[w].sub[i]
          /\ MovedByIndividual(i, act[w].job.requestId)) =>
         images'[<<i, act[w].job.requestId>>].status
           = images[<<i, act[w].job.requestId>>].status]_vars

\* C6: every image record has a storage key, and the key names an object
\* that was written to the bucket.
C6_RecordHasStoredKey ==
  \A k \in ImageKeys :
    images[k].status # "none" =>
      images[k].s3Key # NoKey /\ images[k].s3Key \in objects

(***************************************************************************)
(* Properties of redelivery                                                *)
(***************************************************************************)
\* C11: when processing of a message throws, the message is not removed from
\* the queue.
C11_ThrowKeepsMessage ==
  [][(gen.pc = "return" /\ gen.thrown # "none") =>
       genQueue'[gen.requestId].state # "deleted"]_vars

(***************************************************************************)
(* Properties of the batch operations                                      *)
(***************************************************************************)
\* the images of the request in the given status
imagesInStatus(requestId, status) ==
  {i \in ImageIds : images[<<i, requestId>>].status = status}

\* the images keep_all of worker w has selected
selectedBy(w) == {i \in ImageIds : act[w].sub[i].pc # "none"}

\* the request of the job has three records, one discarded and two generated
OneDiscardedTwoGenerated(w) ==
  LET r == act[w].job.requestId IN
  /\ Cardinality(getImagesByRequest(images, r)) = ImageCount
  /\ Cardinality(imagesInStatus(r, "discarded")) = 1
  /\ Cardinality(imagesInStatus(r, "generated")) = 2

\* C12: keep_all on a request with one discarded and two generated images
\* selects exactly the two generated images; each status write of keep_all
\* takes a selected image from generated to kept and nothing else changes
\* status; no step of keep_all changes the record of a discarded image or
\* copies to its saved key; and the view pushed shows exactly the images
\* that are not discarded, all of them kept.
C12_KeepAllSkipsDiscarded ==
  /\ [][\A w \in Workers :
          (act[w].job.action = "keep_all" /\ act[w].pc = "start"
             /\ act'[w].pc = "all" /\ OneDiscardedTwoGenerated(w)) =>
            {i \in ImageIds : act'[w].sub[i].pc # "none"}
              = imagesInStatus(act[w].job.requestId, "generated")]_vars
  /\ [][\A w \in Workers :
          act[w].job.action = "keep_all" =>
            LET r == act[w].job.requestId IN
            \A i \in ImageIds :
              /\ images'[<<i, r>>].status # images[<<i, r>>].status =>
                   /\ act[w].sub[i].pc = "setStatus"
                   /\ images[<<i, r>>].status = "generated"
                   /\ images'[<<i, r>>].status = "kept"
              /\ images[<<i, r>>].status = "discarded" =>
                   /\ images'[<<i, r>>] = images[<<i, r>>]
                   /\ buildSavedImageKey(act[w].job.userId, r, i)
                        \in objects' => buildSavedImageKey(act[w].job.userId, r, i)
                        \in objects]_vars
  /\ [](\A w \in Workers :
          (act[w].job.action = "keep_all" /\ act[w].pc = "return"
             /\ act[w].thrown = "none") =>
            LET r == act[w].job.requestId IN
            /\ \A i \in selectedBy(w) : images[<<i, r>>].status = "kept"
            /\ act[w].pushed.visible \cap imagesInStatus(r, "discarded") = {}
            /\ act[w].pushed.visible =
                 getImagesByRequest(images, r) \ imagesInStatus(r, "discarded"))

\* C12: keep_all has returned after two status writes, one image is discarded
\* and the view shows the two kept images
C12_Witness ==
  \E w \in Workers :
    LET r == act[w].job.requestId IN
    /\ act[w].job.action = "keep_all"
    /\ act[w].pc = "return"
    /\ act[w].thrown = "none"
    /\ Cardinality(selectedBy(w)) = 2
    /\ Cardinality(imagesInStatus(r, "discarded")) = 1
    /\ Cardinality(imagesInStatus(r, "kept")) = 2
    /\ act[w].pushed.visible = imagesInStatus(r, "kept")

\* C13: discard_all leaves the status of every record that is already kept
\* or already discarded.
C13_DiscardAllKeepsTerminal ==
  [][\A w \in Workers, i \in ImageIds :
       LET k == <<i, act[w].job.requestId>> IN
       (act[w].job.action = "discard_all"
          /\ images[k].status \in {"kept", "discarded"}) =>
         images'[k].status = images[k].status]_vars

\* C14: a record in status kept or discarded is never set back to generated.
C14_NeverBackToGenerated ==
  [][\A k \in ImageKeys :
       images[k].status \in {"kept", "discarded"} =>
         images'[k].status # "generated"]_vars

\* C14: a kept image has been discarded and a discarded image has been kept
C14_Witness ==
  \E w \in Workers :
    /\ act[w].pc = "return"
    /\ act[w].job.action = "keep"
    /\ act[w].image.status = "discarded"
    /\ images[<<act[w].job.imageId, act[w].job.requestId>>].status = "kept"

\* C15: no operation of the Action Worker brings an image record into
\* existence.
C15_ActionCreatesNoRecord ==
  [][\A k \in ImageKeys :
       images[k].status = "none" => images'[k].status = "none"]_vars

(***************************************************************************)
(* Properties of the two gateways                                          *)
(***************************************************************************)
\* a step that begins (and, for all but an accepted command, ends) an
\* invocation of the gateway g under NextGateway
Invoked(g) ==
  /\ event'.gateway = g
  /\ intake.pc = "idle" \/ intake' = intake

\* the step leaves the two tables, the bucket and the two queues as they are
NothingStored ==
  /\ requests' = requests /\ images' = images /\ objects' = objects
  /\ genQueue' = genQueue /\ actQueue' = actQueue

C17_EnqueueOnlyFromAllowedChannel ==
  [][nextActionId' # nextActionId =>
       (/\ event'.gateway = "interaction" /\ event'.signed
        /\ allowedChannelId # "" => event'.channelId = allowedChannelId)]_vars

\* a text that is empty once trimmed
Blank(text) == \A n \in DOMAIN text : text[n] = " "

C19_AlwaysStatus200 ==
  response # NoResponse => response.statusCode = 200

regenerating(w) ==
  act[w].pc # "idle" /\ act[w].job.action = "regenerate_all"

\* the image records and the artifacts of a request
recordsOf(imgs, requestId) == [i \in ImageIds |-> imgs[<<i, requestId>>]]
artifactsOf(objs, requestId) == {k \in objs : k[Len(k) - 1] = requestId}

\* C21: a regenerate_all execution on a completed request with prompt X
\* stores exactly one request, under an id that had no record and differs
\* from the original, with status pending and prompt X, and queues exactly
\* one generation job, for that id.
C21_RegenerateCreatesSibling ==
  /\ [][\A w \in Workers :
         (regenerating(w) /\ requests' # requests) =>
           LET original == act[w].job.requestId
               n == act'[w].newRequestId
           IN /\ act[w].pc = "start"
              /\ n # original /\ requests[n].status = "none"
              /\ requests' =
                   [requests EXCEPT ![n] =
                      [status |-> "pending",
                       prompt |-> requests[original].prompt]]]_vars
  /\ [][\A w \in Workers :
         (regenerating(w) /\ genQueue' # genQueue) =>
           LET n == act[w].newRequestId
           IN /\ act[w].pc = "send"
              /\ requests[n].status = "pending"
              /\ genQueue[n].state = "none"
              /\ genQueue' =
                   [genQueue EXCEPT ![n] =
                      [state |-> "visible", receiveCount |-> 0,
                       prompt |-> requests[n].prompt]]]_vars
  /\ [](\A w \in Workers :
         (regenerating(w) /\ act[w].pc \in {"respond", "return"}
          /\ act[w].thrown = "none") =>
           /\ requests[act[w].newRequestId].status = "pending"
           /\ genQueue[act[w].newRequestId].state = "visible")

\* C21 witness: a regenerate_all execution on the completed request 1 has
\* returned without error, its new request is pending and its job is queued.
C21_Witness ==
  \E w \in Workers :
    /\ regenerating(w) /\ act[w].pc = "return" /\ act[w].thrown = "none"
    /\ requests[act[w].job.requestId].status = "completed"
    /\ act[w].newRequestId # act[w].job.requestId
    /\ requests[act[w].newRequestId] =
         [status |-> "pending", prompt |-> requests[act[w].job.requestId].prompt]
    /\ genQueue[act[w].newRequestId].state = "visible"

\* C22: a regenerate_all execution changes no field of the request it was
\* asked for, none of its image records and none of its artifacts; they stay
\* in the stores.
C22_RegenerateLeavesOriginal ==
  [][\A w \in Workers :
       regenerating(w) =>
         LET original == act[w].job.requestId
         IN /\ requests'[original] = requests[original]
            /\ recordsOf(images', original) = recordsOf(images, original)
            /\ artifactsOf(objects', original) = artifactsOf(objects, original)]_vars

\* C22 witness: a regenerate_all execution has returned without error and
\* the request it was asked for is still completed with its three records
\* and their artifacts.
C22_Witness ==
  \E w \in Workers :
    /\ regenerating(w) /\ act[w].pc = "return" /\ act[w].thrown = "none"
    /\ act[w].newRequestId # 0
    /\ LET original == act[w].job.requestId
       IN /\ requests[original].status = "completed"
          /\ Cardinality(getImagesByRequest(images, original)) = ImageCount
          /\ \A i \in getImagesByRequest(images, original) :
               images[<<i, original>>].s3Key \in objects
\* C23: every regenerate_all job the Interaction Gateway queues carries as
\* originalPrompt the prompt stored in the request its requestId names.
C23_JobCarriesStoredPrompt ==
  [][\A a \in ActionIds :
       (/\ actQueue[a].state = "none" /\ actQueue'[a].state # "none"
        /\ actQueue'[a].job.action = "regenerate_all")
       => (/\ requests[actQueue'[a].job.requestId].status # "none"
           /\ actQueue'[a].job.originalPrompt # NoPrompt
           /\ actQueue'[a].job.originalPrompt =
                requests[actQueue'[a].job.requestId].prompt)]_vars
(***************************************************************************)
(* The requests table under arbitrary calls of createRequest and           *)
(* updateRequestStatus                                                     *)
(***************************************************************************)
\* every variable but requests and call
aside ==
  <<images, objects, nextRequestId, genQueue, gen, intake, response, acked,
    posted, nextImageId, submitted, allowedChannelId, event, actSide>>

Prompts == {Trim(t) : t \in Texts} \ {<<>>}

\* createRequest with any requestId: the put is refused when the id has an item
CreateRequestCall(requestId, prompt) ==
  /\ IF createRequestSucceeds(requests, requestId)
     THEN /\ requests' = createRequest(requests, requestId, prompt)
          /\ call' = [fn |-> "createRequest", requestId |-> requestId,
                      prompt |-> prompt, error |-> "none"]
     ELSE /\ call' = [fn |-> "createRequest", requestId |-> requestId,
                      prompt |-> prompt,
                      error |-> "ConditionalCheckFailedException"]
          /\ UNCHANGED requests
  /\ UNCHANGED aside

\* updateRequestStatus on a stored request
UpdateRequestStatusCall(requestId, status) ==
  /\ requests[requestId].status # "none"
  /\ requests' = updateRequestStatus(requests, requestId, status)
  /\ call' = [fn |-> "updateRequestStatus", requestId |-> requestId,
              status |-> status]
  /\ UNCHANGED aside

NextTable ==
  \/ \E r \in RequestIds, p \in Prompts : CreateRequestCall(r, p)
  \/ \E r \in RequestIds, st \in {"generating", "completed", "failed"} :
       UpdateRequestStatusCall(r, st)

SpecTable == Init /\ [][NextTable]_vars

\* C24: createRequest under a requestId that has a record fails and leaves
\* the record as it is; a creation succeeds only on an id without record,
\* and a record, once stored, keeps its id and prompt, so at most one
\* creation succeeds per requestId.
C24_ConditionalInsert ==
  /\ [][(call'.fn = "createRequest" /\ call' # call
         /\ requests[call'.requestId].status # "none")
        => (call'.error # "none" /\ requests' = requests)]_vars
  /\ [][(call'.fn = "createRequest" /\ call'.error = "none" /\ call' # call)
        => (/\ requests[call'.requestId].status = "none"
            /\ requests' =
                 [requests EXCEPT ![call'.requestId] =
                    [status |-> "pending", prompt |-> call'.prompt]])]_vars
  /\ [][\A r \in RequestIds :
         requests[r].status # "none" =>
           (requests'[r].status # "none"
            /\ requests'[r].prompt = requests[r].prompt)]_vars

\* C24 witness: a creation under the id of a completed request with another
\* prompt has been refused and the record is as it was.
C24_Witness ==
  /\ call.fn = "createRequest"
  /\ call.error = "ConditionalCheckFailedException"
  /\ requests[call.requestId].status = "completed"
  /\ requests[call.requestId].prompt # call.prompt
\* C25: a stored request is changed only by the Generation Worker execution
\* that processes it, and only in its status; no gateway step and no Action
\* Worker step changes a field of a stored request.
C25_OnlyGeneratorMutates ==
  [][\A r \in RequestIds :
       (requests[r].status # "none" /\ requests'[r] # requests[r]) =>
         (/\ gen.pc # "idle" /\ gen.requestId = r
          /\ requests'[r].prompt = requests[r].prompt)]_vars

\* C25 witness: a batch action and a regenerate_all have been processed on
\* the completed request 1, and its record is as it was.
C25_Witness ==
  /\ requests[1] = [status |-> "completed", prompt |-> <<"a">>]
  /\ \E a \in ActionIds :
       /\ actQueue[a].state = "deleted" /\ ~actQueue[a].failed
       /\ actQueue[a].job.action = "regenerate_all"
       /\ actQueue[a].job.requestId = 1
  /\ \E w \in Workers :
       /\ act[w].pc = "return" /\ act[w].thrown = "none"
       /\ act[w].job.action \in {"keep_all", "discard_all"}
       /\ act[w].job.requestId = 1
(***************************************************************************)
(* Properties of keep on a missing record                                  *)
(***************************************************************************)
\* the execution w is processing a keep job
keeping(w) == act[w].pc # "idle" /\ act[w].job.action = "keep"

\* the pair named by the job of w has no image record
recordless(w) ==
  images[<<act[w].job.imageId, act[w].job.requestId>>].status = "none"

\* C26: keep on an (imageId, requestId) without image record fails at the
\* lookup, before any effect: nothing is copied and no record is created or
\* written.
C26_KeepWithoutRecordFails ==
  /\ [][\A w \in Workers :
         (keeping(w) /\ act[w].pc = "start" /\ recordless(w)
          /\ act'[w] # act[w])
         => (/\ act'[w].pc = "return" /\ act'[w].thrown = "not_found"
             /\ images' = images /\ objects' = objects
             /\ requests' = requests /\ genQueue' = genQueue)]_vars
  /\ [](\A w \in Workers :
         (keeping(w) /\ act[w].pc \in {"copy", "setKey", "setStatus"}) =>
           act[w].image.status # "none")
  /\ [](\A w \in Workers :
         (keeping(w) /\ act[w].thrown = "not_found") =>
           (/\ recordless(w)
            /\ buildSavedImageKey(act[w].job.userId, act[w].job.requestId,
                                   act[w].job.imageId) \notin objects))

\* C26 witness: a keep job on a pair without record has ended with the
\* not-found error; the pair still has no record and no saved copy.
C26_Witness ==
  \E w \in Workers :
    /\ keeping(w) /\ act[w].pc = "return" /\ act[w].thrown = "not_found"
    /\ recordless(w)
    /\ buildSavedImageKey(act[w].job.userId, act[w].job.requestId,
                           act[w].job.imageId) \notin objects
(***************************************************************************)
(* Slack request verification (extractSlackHeaders, verifySlackRequest)    *)
(***************************************************************************)
MAX_REQUEST_AGE_SECONDS == 300
SignatureLength == 67          \* 'v0=' and 64 hex digits

\* the clock of the verifier and the seconds a timestamp header may name
CurrentTimestamps == {1000, 1001}
RequestTimestamps == {699, 700, 701, 1000, 1300, 1301, 1302}
Secrets == {"signingSecret", "otherSecret"}
SigningSecret == "signingSecret"
Bodies == {"body", "otherBody"}

\* a header string that holds a timestamp: its leading digits and what
\* follows them
NaN == -1
TimestampStrings ==
  [digits : RequestTimestamps, rest : {"", "abc"}]
    \cup {[digits |-> NaN, rest |-> "abc"]}
EmptyTimestamp == [digits |-> NaN, rest |-> ""]

\* HMAC-SHA256 as a one-to-one function of key and message
hmac(secret, message) == <<"hmac-sha256", secret, message>>

\* the signature Slack computes for a request
slackSignature(secret, timestamp, body) ==
  [bytes |-> <<"v0=", hmac(secret, <<"v0", timestamp, body>>)>>,
   length |-> SignatureLength]
EmptySignature == [bytes |-> <<>>, length |-> 0]

\* a signature with one byte changed, and one with the last byte cut off
flipped(signature) == [signature EXCEPT !.bytes = <<"flipped", signature.bytes>>]
truncated(signature) ==
  [bytes |-> <<"truncated", signature.bytes>>, length |-> signature.length - 1]

\* the signature strings presented with a timestamp and a body
SignatureStrings(timestamp, body) ==
  LET signed == {slackSignature(k, timestamp, b) : k \in Secrets, b \in Bodies}
  IN signed \cup {flipped(slackSignature(SigningSecret, timestamp, body)),
                  truncated(slackSignature(SigningSecret, timestamp, body))}

\* a header of the event: absent, or present with a string
NoHeader == [present |-> FALSE]
Header(value) == [present |-> TRUE, value |-> value]

\* parseInt(timestamp, 10): the leading digits, NaN without any
parseInt(timestamp) == timestamp.digits
isNaN(number) == number = NaN

\* variant: the age is compared in minutes
tooOldInMinutes(currentTimestamp, requestTimestamp) ==
  (currentTimestamp - requestTimestamp) \div 60 > MAX_REQUEST_AGE_SECONDS

\* currentTimestamp - requestTimestamp > MAX_REQUEST_AGE_SECONDS
tooOld(currentTimestamp, requestTimestamp) ==
  currentTimestamp - requestTimestamp > MAX_REQUEST_AGE_SECONDS

\* variant: the body is left out of the signed string
sigBaseStringOfTimestamp(timestamp, body) == <<"v0", timestamp>>

\* `v0:${timestamp}:${body}`
sigBaseString(timestamp, body) == <<"v0", timestamp, body>>

expectedSignature(signingSecret, timestamp, body) ==
  [bytes |-> <<"v0=", hmac(signingSecret, sigBaseString(timestamp, body))>>,
   length |-> SignatureLength]

verifySlackRequest(signingSecret, timestamp, body, signature, currentTimestamp) ==
  LET requestTimestamp == parseInt(timestamp)
      expected == expectedSignature(signingSecret, timestamp, body)
  IN IF isNaN(requestTimestamp)
     THEN [valid |-> FALSE, error |-> "Invalid timestamp format"]
     ELSE IF tooOld(currentTimestamp, requestTimestamp)
     THEN [valid |-> FALSE, error |-> "Request timestamp too old"]
     ELSE IF signature.length # expected.length
     THEN [valid |-> FALSE, error |-> "Signature length mismatch"]
     ELSE IF signature.bytes = expected.bytes
     THEN [valid |-> TRUE, error |-> "none"]
     ELSE [valid |-> FALSE, error |-> "Signature mismatch"]

\* null when a header is missing or empty
extractSlackHeaders(headers) ==
  IF \/ ~headers.timestamp.present \/ headers.timestamp.value = EmptyTimestamp
     \/ ~headers.signature.present \/ headers.signature.value = EmptySignature
  THEN NoHeader
  ELSE Header([timestamp |-> headers.timestamp.value,
               signature |-> headers.signature.value])

\* the events a gateway may receive
HeaderSets(body) ==
  {[timestamp |-> Header(t), signature |-> Header(g)] :
     t \in TimestampStrings,
     g \in SignatureStrings([digits |-> 1000, rest |-> ""], body)}
  \cup UNION {{[timestamp |-> Header(t), signature |-> Header(g)] :
                g \in SignatureStrings(t, body)} : t \in TimestampStrings}
  \cup {[timestamp |-> t, signature |-> g] :
          t \in {NoHeader, Header(EmptyTimestamp),
                 Header([digits |-> 1000, rest |-> ""])},
          g \in {NoHeader, Header(EmptySignature),
                 Header(slackSignature(SigningSecret,
                                       [digits |-> 1000, rest |-> ""], body))}}

NoResult == [valid |-> FALSE, error |-> "pending"]

\* an event has arrived at a gateway at the time currentTimestamp
InitVerify ==
  /\ Empty
  /\ allowedChannelId = AllowedChannelId
  /\ \E body \in Bodies, now \in CurrentTimestamps :
       \E headers \in HeaderSets(body) :
         call = [fn |-> "verifySlackRequest", headers |-> headers,
                 body |-> body, currentTimestamp |-> now, result |-> NoResult]

\* the authentication of the invocation
Authenticate ==
  LET slackHeaders == extractSlackHeaders(call.headers) IN
  /\ call.fn = "verifySlackRequest"
  /\ call.result = NoResult
  /\ call' = [call EXCEPT !.result =
                IF ~slackHeaders.present
                THEN [valid |-> FALSE, error |-> "Missing Slack headers"]
                ELSE verifySlackRequest(SigningSecret,
                                        slackHeaders.value.timestamp, call.body,
                                        slackHeaders.value.signature,
                                        call.currentTimestamp)]
  /\ UNCHANGED <<requests, aside>>

NextVerify == Authenticate

SpecVerify == InitVerify /\ [][NextVerify]_vars
\* the invocation has been authenticated, with both headers presented
verified ==
  /\ call.fn = "verifySlackRequest" /\ call.result # NoResult
  /\ extractSlackHeaders(call.headers).present

\* the seconds the timestamp header lies before the verifier's clock
age == call.currentTimestamp - call.headers.timestamp.value.digits

\* the header names a time at most MAX_REQUEST_AGE_SECONDS from the clock
withinTolerance ==
  /\ call.headers.timestamp.value.digits # NaN
  /\ age <= MAX_REQUEST_AGE_SECONDS /\ -age <= MAX_REQUEST_AGE_SECONDS

\* C27: for a timestamp within tolerance, verification returns valid exactly
\* when the presented signature is 'v0=' followed by the HMAC-SHA256, under
\* the signing secret, of 'v0:' + timestamp + ':' + body; a signature with
\* one byte flipped is invalid.
C27_ValidIffSignatureMatches ==
  (verified /\ withinTolerance) =>
    LET signed == slackSignature(SigningSecret, call.headers.timestamp.value,
                                 call.body)
    IN /\ call.result.valid <=> call.headers.signature.value = signed
       /\ call.headers.signature.value = flipped(signed) => ~call.result.valid

\* C27 witness: a correctly signed request with a timestamp within
\* tolerance has been found valid.
C27_Witness ==
  /\ verified /\ withinTolerance
  /\ call.headers.signature.value =
       slackSignature(SigningSecret, call.headers.timestamp.value, call.body)
  /\ call.result = [valid |-> TRUE, error |-> "none"]

\* C28: a request whose timestamp is more than 300 seconds older than the
\* clock fails with the stale-timestamp error, whether its signature is
\* correct or not.
C28_StaleBeforeSignature ==
  (verified /\ call.headers.timestamp.value.digits # NaN
   /\ age > MAX_REQUEST_AGE_SECONDS)
  => call.result = [valid |-> FALSE, error |-> "Request timestamp too old"]

\* C28 witness: a correctly signed request replayed 301 seconds later has
\* been refused with the stale-timestamp error.
C28_Witness ==
  /\ verified /\ age = MAX_REQUEST_AGE_SECONDS + 1
  /\ call.headers.signature.value =
       slackSignature(SigningSecret, call.headers.timestamp.value, call.body)
  /\ call.result.error = "Request timestamp too old"

\* C29: verification rejects every request whose timestamp is more than 300
\* seconds away from the clock, in either direction and whatever the
\* signature, every request whose timestamp is not a number, and every
\* request with a missing timestamp or signature header.
C29_RejectsOutsideWindow ==
  (/\ call.fn = "verifySlackRequest" /\ call.result # NoResult
   /\ \/ ~extractSlackHeaders(call.headers).present
      \/ call.headers.timestamp.value.rest # ""
      \/ ~withinTolerance)
  => ~call.result.valid

(***************************************************************************)
(* withRetry around a provider operation whose outcome at each invocation  *)
(* is a response or a thrown error                                         *)
(***************************************************************************)
MAX_RETRIES == 5
BASE_DELAY_MS == 2000
MAX_DELAY_MS == 30000

\* Math.random() * 1000, in milliseconds
Jitters == {0, 999}

\* the value the operation resolves with
Response == [class |-> "InvokeModelCommandOutput", name |-> "none", message |-> <<>>]

\* the errors the operation rejects with: class, name and the phrases of
\* the message (none for a thrown value without a message)
ThrottlingErrors ==
  {[class |-> "ThrottlingException", name |-> "ThrottlingException",
    message |-> <<"Rate exceeded">>],
   [class |-> "Error", name |-> "ThrottlingException",
    message |-> <<"Rate exceeded">>],
   [class |-> "Error", name |-> "Error",
    message |-> <<"ThrottlingException", "Rate exceeded">>],
   [class |-> "Error", name |-> "Error",
    message |-> <<"Too many requests", "please wait">>]}
OtherErrors ==
  {[class |-> "Error", name |-> "Error", message |-> <<"Bedrock error">>],
   [class |-> "ValidationException", name |-> "ValidationException",
    message |-> <<"Malformed input request">>],
   [class |-> "Object", name |-> "none", message |-> <<>>]}
Errors == ThrottlingErrors \cup OtherErrors
NoError == [class |-> "none", name |-> "none", message |-> <<>>]

\* message?.includes(part)
includes(message, part) == \E i \in DOMAIN message : message[i] = part

isThrottlingAlways(error) == TRUE
isThrottling(error) ==
  \/ error.class = "ThrottlingException"
  \/ error.name = "ThrottlingException"
  \/ includes(error.message, "ThrottlingException")
  \/ includes(error.message, "Too many requests")

\* Math.min(BASE_DELAY_MS * Math.pow(2, attempt), MAX_DELAY_MS)
baseDelay(attempt) ==
  IF BASE_DELAY_MS * 2^attempt < MAX_DELAY_MS
  THEN BASE_DELAY_MS * 2^attempt ELSE MAX_DELAY_MS

\* attempt < MAX_RETRIES - 1: another iteration follows, so the loop sleeps
retryRemainsAlways(attempt) == TRUE
retryRemains(attempt) == attempt < MAX_RETRIES - 1

\* withRetry has been entered: no invocation of the operation yet
InitRetry ==
  /\ Empty
  /\ allowedChannelId = AllowedChannelId
  /\ call = [fn |-> "withRetry", attempt |-> 0, invocations |-> <<>>,
             delays |-> <<>>, lastError |-> NoError, pc |-> "loop",
             result |-> NoError]

\* one iteration of the loop: the operation is invoked and resolves or
\* rejects with outcome; a rejection is classified and is rethrown, slept
\* on, or thrown as lastError once the attempts are used up
Attempt(outcome, jitter) ==
  /\ call.fn = "withRetry" /\ call.pc = "loop"
  /\ call.attempt < MAX_RETRIES
  /\ LET invoked == [call EXCEPT !.invocations = Append(@, outcome)] IN
     call' =
       IF outcome = Response
       THEN [invoked EXCEPT !.pc = "returned", !.result = outcome]
       ELSE IF ~isThrottling(outcome)
       THEN [invoked EXCEPT !.lastError = outcome, !.pc = "thrown",
                            !.result = outcome]
       ELSE IF retryRemains(call.attempt)
       THEN [invoked EXCEPT !.lastError = outcome,
                            !.delays = Append(@, baseDelay(call.attempt) + jitter),
                            !.attempt = @ + 1]
       ELSE [invoked EXCEPT !.lastError = outcome, !.attempt = @ + 1,
                            !.pc = "thrown", !.result = outcome]
  /\ UNCHANGED <<requests, aside>>

NextRetry == \E outcome \in {Response} \cup Errors, jitter \in Jitters :
               Attempt(outcome, jitter)

SpecRetry == InitRetry /\ [][NextRetry]_vars

SpecRetryLive == InitRetry /\ [][NextRetry]_vars /\ WF_vars(NextRetry)

\* at most MAX_RETRIES invocations; each invocation but the last rejected
\* with a throttling-class error and was followed by one delay; a response
\* ends the call with that response; the MAX_RETRIES-th throttled
\* invocation ends the call with its error and without another delay
retryBounded ==
  call.fn = "withRetry" =>
    LET n == Len(call.invocations) IN
    /\ n <= MAX_RETRIES
    /\ \A i \in 1..(n - 1) : call.invocations[i] \in ThrottlingErrors
    /\ call.pc = "loop" => (n < MAX_RETRIES /\ Len(call.delays) = n)
    /\ (n > 0 /\ call.invocations[n] = Response)
         => (call.pc = "returned" /\ call.result = Response)
    /\ (n = MAX_RETRIES /\ call.invocations[n] \in ThrottlingErrors)
         => /\ call.pc = "thrown" /\ call.result = call.invocations[n]
            /\ Len(call.delays) = MAX_RETRIES - 1

MaxClock == 7
MaxRotations == 1

CACHE_TTL_MS == 300000

\* the milliseconds of a minute of the clock
Minute == 60 * 1000

\* the timeout of the image generator function, in seconds
ImageGeneratorTimeout == 300

\* no cache entry, no token held, no client built, no API call made
NoSecret == [value |-> 0, fetchedAt |-> -1]
NoUse == [value |-> 0, fetchedAt |-> -1, at |-> -1]

\* the container has started: empty cache, no client, version 1 in the store
InitSecrets ==
  /\ Empty
  /\ allowedChannelId = AllowedChannelId
  /\ call = [fn |-> "getSecretValue", now |-> 0, stored |-> 1,
             secretsCache |-> NoSecret, webClientInstance |-> NoSecret,
             botToken |-> NoSecret, startedAt |-> 0, returned |-> "none",
             used |-> NoUse]

\* a minute passes; a running job is within the timeout of its function
SecretsTick ==
  /\ call.fn = "getSecretValue" /\ call.now < MaxClock
  /\ \/ call.botToken = NoSecret
     \/ (call.now + 1 - call.startedAt) * 60 < ImageGeneratorTimeout
  /\ call' = [call EXCEPT !.now = @ + 1, !.returned = "none"]
  /\ UNCHANGED <<requests, aside>>

\* the secret is rotated in the store
SecretsRotate ==
  /\ call.fn = "getSecretValue" /\ call.stored <= MaxRotations
  /\ call' = [call EXCEPT !.stored = @ + 1, !.returned = "none"]
  /\ UNCHANGED <<requests, aside>>

\* cached && cached.expiry > Date.now()
cacheHit(cached, now) ==
  cached # NoSecret /\ cached.fetchedAt * Minute + CACHE_TTL_MS > now * Minute

\* getSecretValue at the start of a job: the cached value while its expiry
\* lies ahead, otherwise the stored value, which is cached
GetSecretValue ==
  /\ call.fn = "getSecretValue" /\ call.botToken = NoSecret
  /\ call' =
       IF cacheHit(call.secretsCache, call.now)
       THEN [call EXCEPT !.botToken = call.secretsCache, !.returned = "cache",
                         !.startedAt = call.now]
       ELSE LET fetched == [value |-> call.stored, fetchedAt |-> call.now]
            IN [call EXCEPT !.botToken = fetched, !.secretsCache = fetched,
                            !.returned = "store", !.startedAt = call.now]
  /\ UNCHANGED <<requests, aside>>

\* getSlackClient(token): the client of the module scope, built with the
\* token of the first call
getSlackClient(instance, token) ==
  IF instance = NoSecret THEN token ELSE instance

\* postMessage with the job's token, then the job ends
PostMessage ==
  /\ call.fn = "getSecretValue" /\ call.botToken # NoSecret
  /\ LET client == getSlackClient(call.webClientInstance, call.botToken) IN
     call' = [call EXCEPT !.webClientInstance = client,
                          !.used = [value |-> client.value,
                                    fetchedAt |-> client.fetchedAt,
                                    at |-> call.now],
                          !.botToken = NoSecret, !.returned = "none"]
  /\ UNCHANGED <<requests, aside>>

\* the container is replaced: the module scope starts empty
ColdStart ==
  /\ call.fn = "getSecretValue" /\ call.botToken = NoSecret
  /\ call.secretsCache # NoSecret
  /\ call' = [call EXCEPT !.secretsCache = NoSecret,
                          !.webClientInstance = NoSecret, !.returned = "none"]
  /\ UNCHANGED <<requests, aside>>

NextSecrets ==
  SecretsTick \/ SecretsRotate \/ GetSecretValue \/ PostMessage \/ ColdStart

SpecSecrets == InitSecrets /\ [][NextSecrets]_vars

\* C32: a value returned from the secret cache was fetched from the store
\* less than 5 minutes earlier, and no external API call is made with a
\* secret value fetched more than 5 minutes earlier.
C32_NoSecretBeyondTtl ==
  call.fn = "getSecretValue" =>
    /\ call.returned = "cache"
         => (call.now - call.botToken.fetchedAt) * Minute < CACHE_TTL_MS
    /\ call.used # NoUse
         => (call.used.at - call.used.fetchedAt) * Minute <= CACHE_TTL_MS

\* the part of C32 about the cache alone: a value returned from the cache
\* was fetched less than 5 minutes earlier
secretCacheFresh ==
  (call.fn = "getSecretValue" /\ call.returned = "cache")
  => (call.now - call.botToken.fetchedAt) * Minute < CACHE_TTL_MS

(***************************************************************************)
(* Properties of discard                                                   *)
(***************************************************************************)
\* the execution w takes the step of handleDiscardImage
discards(w) ==
  /\ act[w].job.action = "discard"
  /\ act[w].pc = "start" /\ act'[w].pc = "respond"

\* C33: a discard only sets the status of the image record to discarded: it
\* changes nothing in the artifact store and does not give the record an
\* expiry attribute.
C33_DiscardOnlySetsStatus ==
  [][\A w \in Workers :
       discards(w) =>
         LET key == <<act[w].job.imageId, act[w].job.requestId>> IN
         /\ objects' = objects
         /\ images' = [images EXCEPT ![key].status = "discarded"]]_vars

\* the part of C33 about the artifact store: a discard changes no object
discardLeavesObjects ==
  [][\A w \in Workers : discards(w) => objects' = objects]_vars

(***************************************************************************)
(* One delivery of a message of a work queue to its worker, with the       *)
(* clock in seconds since the receive                                      *)
(***************************************************************************)
\* the seconds of one step of the clock
ClockStep == 10

\* the timeouts of the action and ideation functions, in seconds
ActionProcessorTimeout == 120
IdeationProcessorTimeout == 60

Queues == {"generationQueue", "actionQueue", "ideationQueue"}

\* visibilityTimeout of each queue, in seconds
visibilityTimeout(queue) ==
  CASE queue = "generationQueue" -> 6 * 60
    [] queue = "actionQueue" -> 3 * 60
    [] queue = "ideationQueue" -> 6 * 60

\* timeout of the function that consumes the queue, in seconds
timeout(queue) ==
  CASE queue = "generationQueue" -> ImageGeneratorTimeout
    [] queue = "actionQueue" -> ActionProcessorTimeout
    [] queue = "ideationQueue" -> IdeationProcessorTimeout

\* a message of a queue has just been received by an invocation
InitDelivery ==
  /\ Empty
  /\ allowedChannelId = AllowedChannelId
  /\ \E queue \in Queues :
       call = [fn |-> "receiveMessage", queue |-> queue, elapsed |-> 0,
               worker |-> "running", message |-> "inflight"]

\* time passes; a running invocation does not outlive its timeout
DeliveryTick ==
  /\ call.fn = "receiveMessage"
  /\ call.message = "inflight"
  /\ call.worker = "running" => call.elapsed + ClockStep <= timeout(call.queue)
  /\ call.elapsed < visibilityTimeout(call.queue)
  /\ call' = [call EXCEPT !.elapsed = @ + ClockStep]
  /\ UNCHANGED <<requests, aside>>

\* the invocation returns and the message is deleted
DeliveryReturn ==
  /\ call.fn = "receiveMessage"
  /\ call.worker = "running" /\ call.elapsed < timeout(call.queue)
  /\ call' = [call EXCEPT !.worker = "returned", !.message = "deleted"]
  /\ UNCHANGED <<requests, aside>>

\* the invocation is killed at its timeout; the message stays in flight
DeliveryTimeout ==
  /\ call.fn = "receiveMessage"
  /\ call.worker = "running" /\ call.elapsed = timeout(call.queue)
  /\ call' = [call EXCEPT !.worker = "killed"]
  /\ UNCHANGED <<requests, aside>>

\* the visibility timeout has passed: the message is visible again
DeliveryRedeliver ==
  /\ call.fn = "receiveMessage"
  /\ call.message = "inflight"
  /\ call.elapsed >= visibilityTimeout(call.queue)
  /\ call' = [call EXCEPT !.message = "visible"]
  /\ UNCHANGED <<requests, aside>>

NextDelivery ==
  DeliveryTick \/ DeliveryReturn \/ DeliveryTimeout \/ DeliveryRedeliver

SpecDelivery == InitDelivery /\ [][NextDelivery]_vars

\* C34: for every work queue the visibility timeout is at least six times
\* the timeout of the worker that consumes it, and a message is not
\* visible again while the invocation that received it is still running.
C34_VisibilitySixTimesTimeout ==
  call.fn = "receiveMessage" =>
    /\ visibilityTimeout(call.queue) >= 6 * timeout(call.queue)
    /\ ~(call.worker = "running" /\ call.message = "visible")

\* the part of C34 about redelivery: the message is not visible again
\* while the invocation that received it is running
noOverlappingRedelivery ==
  call.fn = "receiveMessage" =>
    ~(call.worker = "running" /\ call.message = "visible")

(***************************************************************************)
(* Properties of the generation job under redelivery                       *)
(***************************************************************************)
\* C35: however many times the generation job of a request is delivered and
\* processed, at most 3 image records exist under its requestId.
C35_AtMostThreeImages ==
  \A r \in RequestIds :
    Cardinality(getImagesByRequest(images, r)) <= ImageCount

\* the generation worker with every step that can be taken eventually taken:
\* queued jobs are received, running executions continue or are killed
SpecGenLive == InitGen /\ [][GenStep]_vars /\ WF_vars(GenStep)

\* C36: every request that has been created eventually reaches completed
\* or failed.
C36_EventuallyTerminal ==
  \A r \in RequestIds :
    (requests[r].status # "none")
      ~> (requests[r].status \in {"completed", "failed"})

(***************************************************************************)
(* Properties of the key and the status of an image record                 *)
(***************************************************************************)
\* the key lies in the saved/ scope
savedScope(s3Key) == s3Key # NoKey /\ Head(s3Key) = "saved"

\* C37: in every reachable state the storage key of an image record is in
\* the saved/ scope exactly when the status of the record is kept.
C37_SavedKeyIffKept ==
  \A k \in ImageKeys :
    images[k].status # "none" =>
      (savedScope(images[k].s3Key) <=> images[k].status = "kept")

(***************************************************************************)
(* Properties of the per-image commits after a recorded failure            *)
(***************************************************************************)
\* the running execution has written status failed for its request
failureRecorded == gen.pc = "notify" /\ requests[gen.requestId].status = "failed"

\* C38: once an execution has written status failed for its request, that
\* execution stores no further artifact and creates no further image record.
C38_NoCommitAfterFailure ==
  [][failureRecorded => (objects' = objects /\ images' = images)]_vars

(***************************************************************************)
(* Ideation Worker (ideation-processor handler): one job                   *)
(***************************************************************************)
\* theme of the job; the empty theme fails IdeationJobMessageSchema
Themes == {"", "retro", "space", "cats"}
IdeationProviders == {"anthropic", "gemini"}

\* the error that leaves the catch block of processIdeationJob: the failure
\* notice is awaited outside any try, so its error replaces the caught one
raisedFromCatch(error, webhookError) ==
  IF webhookError = "none" THEN error ELSE webhookError

\* a job has been received
InitIdeation ==
  /\ Empty
  /\ allowedChannelId = AllowedChannelId
  /\ \E theme \in Themes, provider \in IdeationProviders :
       call = [fn |-> "processIdeationJob", theme |-> theme,
               provider |-> provider, pc |-> "parse", caught |-> "none",
               notice |-> "none", posted |-> FALSE, thrown |-> "none",
               batchItemFailures |-> FALSE]

\* safeParse of the message
IdeationParse ==
  /\ call.fn = "processIdeationJob" /\ call.pc = "parse"
  /\ call' = IF call.theme = ""
             THEN [call EXCEPT !.pc = "handler", !.thrown = "invalid"]
             ELSE [call EXCEPT !.pc = "create"]
  /\ UNCHANGED <<requests, aside>>

\* createIdeatorFromEnv
IdeationCreate(ok) ==
  /\ call.fn = "processIdeationJob" /\ call.pc = "create"
  /\ call' = IF ok THEN [call EXCEPT !.pc = "generate"]
             ELSE [call EXCEPT !.pc = "catch", !.caught = "createIdeator"]
  /\ UNCHANGED <<requests, aside>>

\* ideator.generatePrompts
IdeationGenerate(ok) ==
  /\ call.fn = "processIdeationJob" /\ call.pc = "generate"
  /\ call' = IF ok THEN [call EXCEPT !.pc = "post"]
             ELSE [call EXCEPT !.pc = "catch", !.caught = "generatePrompts"]
  /\ UNCHANGED <<requests, aside>>

\* respondToWebhook with the results
IdeationPost(ok) ==
  /\ call.fn = "processIdeationJob" /\ call.pc = "post"
  /\ call' = IF ok THEN [call EXCEPT !.pc = "handler", !.posted = TRUE]
             ELSE [call EXCEPT !.pc = "catch", !.caught = "webhook"]
  /\ UNCHANGED <<requests, aside>>

\* catch block: respondToWebhook with the failure message, then throw error
IdeationCatch(webhookError) ==
  /\ call.fn = "processIdeationJob" /\ call.pc = "catch"
  /\ call' = [call EXCEPT
               !.pc = "handler",
               !.notice = IF webhookError = "none" THEN "sent" ELSE "failed",
               !.thrown = raisedFromCatch(call.caught, webhookError)]
  /\ UNCHANGED <<requests, aside>>

\* the handler catches the error of the job and lists the message in
\* batchItemFailures
IdeationReturn ==
  /\ call.fn = "processIdeationJob" /\ call.pc = "handler"
  /\ call' = [call EXCEPT !.pc = "returned",
                          !.batchItemFailures = call.thrown # "none"]
  /\ UNCHANGED <<requests, aside>>

NextIdeation ==
  \/ IdeationParse
  \/ \E ok \in BOOLEAN : IdeationCreate(ok)
  \/ \E ok \in BOOLEAN : IdeationGenerate(ok)
  \/ \E ok \in BOOLEAN : IdeationPost(ok)
  \/ \E e \in {"none", "webhookNotice"} : IdeationCatch(e)
  \/ IdeationReturn

SpecIdeation == InitIdeation /\ [][NextIdeation]_vars

\* C39: when the ideation fails and the post of the failure message fails
\* too, the error raised for the job is the ideation error, not the error
\* of the failed post.
C39_OriginalErrorRaised ==
  (/\ call.fn = "processIdeationJob"
   /\ call.caught \in {"createIdeator", "generatePrompts"}
   /\ call.notice = "failed")
  => call.thrown = call.caught

(***************************************************************************)
(* Properties of the expiry attribute of image records                     *)
(***************************************************************************)
\* C40: an image record whose status is kept never carries an expiry (ttl)
\* attribute, after any sequence of keep, discard, keep_all and discard_all.
C40_KeptHasNoTtl ==
  \A k \in ImageKeys : images[k].status = "kept" => ~images[k].ttl
====
